---- MODULE Spec2Model ----
(***************************************************************************)
(* GemmParams<T> and GemmStridedBatchedParams<T> of                        *)
(* aten/src/ATen/cuda/tunable/GemmCommon.h, with T = float.                *)
(*                                                                         *)
(* A descriptor is a record of the struct's fields.  Device memory is a    *)
(* sequence of buffers indexed by address; descriptors sit in the sequence *)
(* objs, caller-constructed ones first, DeepCopy results appended.         *)
(* Element values are fixed-point integers in units of 1e-8, or NaN.       *)
(***************************************************************************)
EXTENDS Integers, Sequences, FiniteSets, TLC

VARIABLES objs, mem, stream, log, ret

vars == <<objs, mem, stream, log, ret>>

\* ---------------------------------------------------------------- bounds

\* Descriptor objects that may exist (caller's plus `new` in DeepCopy).
MaxObjs == 3

\* ------------------------------------------------------------- constants

\* sizeof(T) for T = float.
SizeofT == 4

\* One unit of the fixed-point element values is 1e-8, so 1.0 is Unit.
Unit == 100000000

\* Element values lie strictly between -10.0 and 10.0; the two codes
\* above that range stand for NaN and for device memory no one has written.
NaN == 10 * Unit

Uninit == 10 * Unit + 1

OK == "OK"

FAIL == "FAIL"

Dense == "GemmParams"

Batched == "GemmStridedBatchedParams"

\* ------------------------------------------------------- pure functions

Abs(x) == IF x < 0 THEN -x ELSE x

Digit == <<"0", "1", "2", "3", "4", "5", "6", "7", "8", "9">>

\* operator<< of an int64_t: its decimal digits, '-' first when negative.
RECURSIVE NatStr(_)
NatStr(x) == IF x < 10 THEN Digit[x + 1]
             ELSE NatStr(x \div 10) \o Digit[(x % 10) + 1]

IntStr(x) == IF x < 0 THEN "-" \o NatStr(-x) ELSE NatStr(x)

\* A no-transpose marker, as the size functions test it.
IsNoTrans(ch) == ch = "n" \/ ch = "N"

\* The signature with the delimiter between m and n forgotten.
GemmParams_Signature_NoDelimiter(d) ==
    d.transa \o d.transb \o "_" \o IntStr(d.m) \o IntStr(d.n)
             \o "_" \o IntStr(d.k)

GemmParams_Signature(d) ==
    d.transa \o d.transb \o "_" \o IntStr(d.m) \o "_" \o IntStr(d.n)
             \o "_" \o IntStr(d.k)

\* GetSizeA testing transa for the lower-case marker alone.
GemmParams_GetSizeA_LowerOnly(d) ==
    SizeofT * d.lda * (IF d.transa = "n" THEN d.k ELSE d.m)

GemmParams_GetSizeA(d) ==
    SizeofT * d.lda * (IF IsNoTrans(d.transa) THEN d.k ELSE d.m)

GemmParams_GetSizeB(d) ==
    SizeofT * d.ldb * (IF IsNoTrans(d.transb) THEN d.n ELSE d.k)

GemmParams_GetSizeC(d) == SizeofT * d.ldc * d.n

GemmParams_GetSize(d, duplicate_inputs) ==
    IF duplicate_inputs
    THEN GemmParams_GetSizeC(d) + GemmParams_GetSizeA(d) + GemmParams_GetSizeB(d)
    ELSE GemmParams_GetSizeC(d)

\* The batched signature leaving the suffix out for a single batch.
GemmStridedBatchedParams_Signature_NoSuffixForOne(d) ==
    IF d.batch = 1
    THEN d.transa \o d.transb \o "_" \o IntStr(d.m) \o "_" \o IntStr(d.n)
                  \o "_" \o IntStr(d.k)
    ELSE d.transa \o d.transb \o "_" \o IntStr(d.m) \o "_" \o IntStr(d.n)
                  \o "_" \o IntStr(d.k) \o "_B_" \o IntStr(d.batch)

GemmStridedBatchedParams_Signature(d) ==
    d.transa \o d.transb \o "_" \o IntStr(d.m) \o "_" \o IntStr(d.n)
             \o "_" \o IntStr(d.k) \o "_B_" \o IntStr(d.batch)

GemmStridedBatchedParams_GetSizeA(d) ==
    SizeofT * d.lda * (IF IsNoTrans(d.transa) THEN d.k ELSE d.m) * d.batch

GemmStridedBatchedParams_GetSizeB(d) ==
    SizeofT * d.ldb * (IF IsNoTrans(d.transb) THEN d.n ELSE d.k) * d.batch

GemmStridedBatchedParams_GetSizeC(d) == SizeofT * d.ldc * d.n * d.batch

GemmStridedBatchedParams_GetSize(d, duplicate_inputs) ==
    IF duplicate_inputs
    THEN GemmStridedBatchedParams_GetSizeC(d)
         + GemmStridedBatchedParams_GetSizeA(d)
         + GemmStridedBatchedParams_GetSizeB(d)
    ELSE GemmStridedBatchedParams_GetSizeC(d)

\* The virtual calls, dispatched on the descriptor's type.
Signature(d) == IF d.kind = Dense THEN GemmParams_Signature(d)
                ELSE GemmStridedBatchedParams_Signature(d)

GetSizeA(d) == IF d.kind = Dense THEN GemmParams_GetSizeA(d)
               ELSE GemmStridedBatchedParams_GetSizeA(d)

GetSizeB(d) == IF d.kind = Dense THEN GemmParams_GetSizeB(d)
               ELSE GemmStridedBatchedParams_GetSizeB(d)

GetSizeC(d) == IF d.kind = Dense THEN GemmParams_GetSizeC(d)
               ELSE GemmStridedBatchedParams_GetSizeC(d)

GetSize(d, duplicate_inputs) ==
    IF d.kind = Dense THEN GemmParams_GetSize(d, duplicate_inputs)
    ELSE GemmStridedBatchedParams_GetSize(d, duplicate_inputs)

\* ------------------------------------------------------- device memory

\* A block the allocator takes from the device for a request of `bytes`
\* bytes: nothing written yet.
FreshBlock(bytes) ==
    [bytes |-> bytes,
     data |-> [e \in 1..(bytes \div SizeofT) |-> Uninit],
     freedBy |-> {}, writes |-> 0, live |-> TRUE]

\* A block handed back to the allocator and given out again for a request
\* of `bytes` bytes: it holds what its last tenant left in it.
ReusedBlock(blk, bytes) ==
    [blk EXCEPT !.bytes = bytes, !.freedBy = {}, !.writes = 0,
                !.live = TRUE]

\* The blocks handed back to the allocator that can hold `bytes` bytes.
FreeBlocks(m, bytes) ==
    {x \in DOMAIN m : ~m[x].live /\ Len(m[x].data) * SizeofT >= bytes}

\* The allocator's pick among them: the smallest, the lowest address first.
BestFit(m, bytes) ==
    {x \in FreeBlocks(m, bytes) :
        \A y \in FreeBlocks(m, bytes) :
           \/ Len(m[x].data) < Len(m[y].data)
           \/ (Len(m[x].data) = Len(m[y].data) /\ x <= y)}

\* raw_alloc(bytes): the memory after the call and the address returned,
\* a block new to the allocator or its pick of those handed back to it.
raw_alloc(m, bytes) ==
    {<<Append(m, FreshBlock(bytes)), Len(m) + 1>>}
    \cup {<<[m EXCEPT ![x] = ReusedBlock(@, bytes)], x>>
             : x \in BestFit(m, bytes)}

\* A buffer of the caller, holding `data`.
CallerBuffer(data) ==
    [bytes |-> SizeofT * Len(data), data |-> data,
     freedBy |-> {}, writes |-> 0, live |-> TRUE]

\* raw_delete(addr), issued by the Delete() of descriptor `by`: the block
\* goes back to the allocator.
raw_delete(m, addr, by) ==
    [m EXCEPT ![addr].freedBy = @ \cup {by}, ![addr].live = FALSE]

\* The device runs one copy of the stream: `bytes` bytes from src to dst.
ExecCopy(m, op) ==
    LET cnt == op.bytes \div SizeofT
        src == m[op.src].data
    IN [m EXCEPT ![op.dst].data =
                     [e \in DOMAIN @ |->
                        IF e <= cnt
                        THEN (IF e <= Len(src) THEN src[e] ELSE Uninit)
                        ELSE @[e]],
                 ![op.dst].writes = @ + 1]

\* The device runs every pending operation of the stream, in order.
RECURSIVE Drain(_, _)
Drain(m, q) == IF q = <<>> THEN m ELSE Drain(ExecCopy(m, Head(q)), Tail(q))

\* ---------------------------------------------------- numerical check

\* The ladder {1e-1, 1e-2, 1e-3, 1e-4, 1e-5}, in units of 1e-8.
atols == <<10000000, 1000000, 100000, 10000, 1000>>

rtols == <<10000000, 1000000, 100000, 10000, 1000>>

\* last_succeed_atol = 1, last_succeed_rtol = 1 before the sweep.
Sentinel == [atol |-> Unit, rtol |-> Unit, evals |-> 0]

\* |x - y| <= atol + rtol * |y|, false when either is NaN.  With rtol a
\* count of units, rtol * |y| is |y| / (Unit / rtol); the left side being
\* whole, the quotient's whole part decides, and no product leaves 32 bits.
isclose(x, y, rtol, atol) ==
    /\ x # NaN
    /\ y # NaN
    /\ Abs(x - y) - atol <= Abs(y) \div (Unit \div rtol)

allclose(self, other, rtol, atol) ==
    \A e \in DOMAIN self : isclose(self[e], other[e], rtol, atol)

\* The inner loop's body recording a passing pair only while none is recorded.
Track_First(last, hit, atol, rtol) ==
    IF hit /\ last.atol = Unit
    THEN [atol |-> atol, rtol |-> rtol, evals |-> last.evals + 1]
    ELSE [last EXCEPT !.evals = @ + 1]

\* The body of the inner loop: a passing pair replaces the recorded one.
Track(last, hit, atol, rtol) ==
    IF hit THEN [atol |-> atol, rtol |-> rtol, evals |-> last.evals + 1]
    ELSE [last EXCEPT !.evals = @ + 1]

\* for atol in atols: for rtol in rtols: the idx-th pair of the sweep.
AtolAt(idx) == atols[((idx - 1) \div Len(rtols)) + 1]

RtolAt(idx) == rtols[((idx - 1) % Len(rtols)) + 1]

\* The two loops: after[idx] is what is recorded once idx pairs are done.
Sweep(ref_float, oth_float) ==
    LET after[idx \in 0..(Len(atols) * Len(rtols))] ==
            IF idx = 0 THEN Sentinel
            ELSE Track(after[idx - 1],
                       allclose(ref_float, oth_float, RtolAt(idx), AtolAt(idx)),
                       AtolAt(idx), RtolAt(idx))
    IN after[Len(atols) * Len(rtols)]

\* The final test made against the loosest ladder entry, not the sentinel.
Status_Loosest(last) == IF last.atol = atols[1] THEN FAIL ELSE OK

\* if (last_succeed_atol == 1) return FAIL; ... return OK;
Status(last) == IF last.atol = Unit THEN FAIL ELSE OK

\* Elements the check views in a c buffer.
GemmParams_NumElems(d) == d.ldc * d.n

GemmStridedBatchedParams_NumElems(d) == d.batch * d.stride_c

NumElems(d) == IF d.kind = Dense THEN GemmParams_NumElems(d)
               ELSE GemmStridedBatchedParams_NumElems(d)

\* Values a read of unwritten or out-of-bounds device memory may give: any
\* float.  Here NaN, 0 and 5.0; 1.05e-5, 3e-5, 3.999e-5, 1e-4, 1.4e-4
\* (what the padded originals hold there), 1.5e-4, 1.6e-4, 2.5e-4, 5e-3
\* and 5e-2; and values just above 1.4e-4 plus each ladder entry, so that
\* a check of such an element against 1.4e-4, the read on either side of
\* the comparison, can end in FAIL and in OK with each of the 25
\* (atol, rtol) pairs of the ladder.
IndetVals ==
    {NaN, 0, 5 * Unit}
    \cup {1050, 3000, 3999, 10000, 14000, 15000, 16000, 25000, 500000,
          5000000}
    \cup {15001, 15008, 15080}
    \cup {24001, 24008, 24080}
    \cup {114001, 114006, 114013, 114130, 115300}
    \cup {1014001, 1014008, 1014080, 1014800}
    \cup {1014050, 1014500, 1020000, 1100000}
    \cup {10014001, 10014008, 10014080, 10014800}
    \cup {10014500, 10020000, 10070000, 10600000}

\* The viewed elements of buffer addr that lie past its end or hold
\* nothing written.
Indet(m, addr, cnt) ==
    {e \in 1..cnt : e > Len(m[addr].data) \/ m[addr].data[e] = Uninit}

\* at::from_blob(ptr, {cnt}).to(at::kFloat) for T = float: the cnt
\* elements at addr, the indeterminate ones as `fill` gives them.
from_blob(m, addr, cnt, fill) ==
    [e \in 1..cnt |-> IF e \in DOMAIN fill THEN fill[e] ELSE m[addr].data[e]]

\* ------------------------------------------------------------ operations

Objs == 1..Len(objs)

\* The DeepCopy call, if it is one, that the next call follows at once.
Prev == IF ret.op = "DeepCopy" THEN ret ELSE [op |-> "none"]

\* The descriptor DeepCopy returns: *copy = *this, then the new pointers.
DeepCopyDesc(this, duplicate_inputs, newc, newa, newb) ==
    LET copy == [this EXCEPT !.c = newc]
    IN IF duplicate_inputs
       THEN [copy EXCEPT !.a = newa, !.b = newb, !.duplicate_inputs_ = TRUE]
       ELSE copy

\* DeepCopy on objs[i], the three sizes as the struct computes them.
DeepCopyBody(i, duplicate_inputs, c_size, a_size, b_size) ==
    /\ Len(objs) < MaxObjs
    /\ \E rc \in raw_alloc(mem, c_size) :
       \E ra \in (IF duplicate_inputs THEN raw_alloc(rc[1], a_size)
                   ELSE {<<rc[1], objs[i].a>>}) :
       \E rb \in (IF duplicate_inputs THEN raw_alloc(ra[1], b_size)
                   ELSE {<<ra[1], objs[i].b>>}) :
       LET this == objs[i]
           newc == rc[2]
           copy == DeepCopyDesc(this, duplicate_inputs, newc, ra[2], rb[2])
       IN
       /\ objs' = Append(objs, copy)
       /\ mem' = rb[1]
       /\ stream' = Append(stream,
                           [dst |-> newc, src |-> this.c, bytes |-> c_size])
       /\ log' = Append(log, [parent |-> i,
                              duplicate_inputs |-> duplicate_inputs,
                              deletes |-> 0, made |-> copy])
       /\ ret' = [op |-> "DeepCopy", this |-> i,
                  duplicate_inputs |-> duplicate_inputs,
                  result |-> Len(objs) + 1]

GemmParams_DeepCopy(i, duplicate_inputs) ==
    /\ objs[i].kind = Dense
    /\ DeepCopyBody(i, duplicate_inputs,
                    GemmParams_GetSizeC(objs[i]),
                    GemmParams_GetSizeA(objs[i]),
                    GemmParams_GetSizeB(objs[i]))

GemmStridedBatchedParams_DeepCopy(i, duplicate_inputs) ==
    /\ objs[i].kind = Batched
    /\ DeepCopyBody(i, duplicate_inputs,
                    GemmStridedBatchedParams_GetSizeC(objs[i]),
                    GemmStridedBatchedParams_GetSizeA(objs[i]),
                    GemmStridedBatchedParams_GetSizeB(objs[i]))

\* The device runs the oldest pending copy of the stream.
StreamExec ==
    /\ stream # <<>>
    /\ mem' = ExecCopy(mem, Head(stream))
    /\ stream' = Tail(stream)
    /\ UNCHANGED <<objs, log, ret>>

\* Delete() with the test of duplicate_inputs_ left out.
DeleteFrees_Unconditional(d) == <<d.c, d.a, d.b>>

\* The addresses Delete() hands to raw_delete, in order.
DeleteFrees(d) ==
    <<d.c>> \o (IF d.duplicate_inputs_ THEN <<d.a, d.b>> ELSE <<>>)

RECURSIVE FreeAll(_, _, _)
FreeAll(m, addrs, by) ==
    IF addrs = <<>> THEN m
    ELSE FreeAll(raw_delete(m, Head(addrs), by), Tail(addrs), by)

\* Delete() on objs[i]: no test precedes the raw_delete calls.  The log
\* counts the calls on a descriptor as none, one, or two and more.
DeleteBody(i) ==
    LET addrs == DeleteFrees(objs[i])
    IN /\ mem' = FreeAll(mem, addrs, i)
       /\ log' = [log EXCEPT ![i].deletes = IF @ < 2 THEN @ + 1 ELSE @]
       /\ ret' = [op |-> "Delete", this |-> i,
                  freed |-> {addrs[x] : x \in DOMAIN addrs},
                  returned |-> TRUE]
       /\ UNCHANGED <<objs, stream>>

GemmParams_Delete(i) == objs[i].kind = Dense /\ DeleteBody(i)

GemmStridedBatchedParams_Delete(i) == objs[i].kind = Batched /\ DeleteBody(i)

\* objs[i].NumericalCheck(&objs[j]) viewing cnt elements of each c.  The
\* comparison kernels run on the current stream, behind what is pending.
NumericalCheckBody(i, j, cnt) ==
    \E m \in {Drain(mem, stream)} :
    \E fr \in [Indet(m, objs[i].c, cnt) -> IndetVals] :
    \E fo \in (IF objs[i].c = objs[j].c THEN {fr}
               ELSE [Indet(m, objs[j].c, cnt) -> IndetVals]) :
    \E ref_float \in {from_blob(m, objs[i].c, cnt, fr)},
       oth_float \in {from_blob(m, objs[j].c, cnt, fo)} :
    \E last \in {Sweep(ref_float, oth_float)} :
       /\ mem' = m
       /\ stream' = <<>>
       /\ ret' = [op |-> "NumericalCheck", this |-> i, other |-> j,
                  ref_float |-> ref_float, oth_float |-> oth_float,
                  status |-> Status(last),
                  atol |-> last.atol, rtol |-> last.rtol,
                  evals |-> last.evals, prev |-> Prev]
       /\ UNCHANGED <<objs, log>>

GemmParams_NumericalCheck(i, j) ==
    /\ objs[i].kind = Dense
    /\ objs[j].kind = Dense
    /\ NumericalCheckBody(i, j, GemmParams_NumElems(objs[i]))

GemmStridedBatchedParams_NumericalCheck(i, j) ==
    /\ objs[i].kind = Batched
    /\ objs[j].kind = Batched
    /\ NumericalCheckBody(i, j, GemmStridedBatchedParams_NumElems(objs[i]))

\* A call of a const method on objs[i]: only the result comes back.
Returns(op, i, result) ==
    /\ ret' = [op |-> op, this |-> i, result |-> result]
    /\ UNCHANGED <<objs, mem, stream, log>>

GemmParams_SignatureCall(i) ==
    /\ objs[i].kind = Dense
    /\ Returns("Signature", i, GemmParams_Signature(objs[i]))

GemmStridedBatchedParams_SignatureCall(i) ==
    /\ objs[i].kind = Batched
    /\ Returns("Signature", i, GemmStridedBatchedParams_Signature(objs[i]))

GemmParams_GetSizeACall(i) ==
    /\ objs[i].kind = Dense
    /\ Returns("GetSizeA", i, GemmParams_GetSizeA(objs[i]))

GemmParams_GetSizeBCall(i) ==
    /\ objs[i].kind = Dense
    /\ Returns("GetSizeB", i, GemmParams_GetSizeB(objs[i]))

GemmParams_GetSizeCCall(i) ==
    /\ objs[i].kind = Dense
    /\ Returns("GetSizeC", i, GemmParams_GetSizeC(objs[i]))

GemmParams_GetSizeCall(i, duplicate_inputs) ==
    /\ objs[i].kind = Dense
    /\ Returns(IF duplicate_inputs THEN "GetSize(true)" ELSE "GetSize(false)",
               i, GemmParams_GetSize(objs[i], duplicate_inputs))

GemmStridedBatchedParams_GetSizeACall(i) ==
    /\ objs[i].kind = Batched
    /\ Returns("GetSizeA", i, GemmStridedBatchedParams_GetSizeA(objs[i]))

GemmStridedBatchedParams_GetSizeBCall(i) ==
    /\ objs[i].kind = Batched
    /\ Returns("GetSizeB", i, GemmStridedBatchedParams_GetSizeB(objs[i]))

GemmStridedBatchedParams_GetSizeCCall(i) ==
    /\ objs[i].kind = Batched
    /\ Returns("GetSizeC", i, GemmStridedBatchedParams_GetSizeC(objs[i]))

GemmStridedBatchedParams_GetSizeCall(i, duplicate_inputs) ==
    /\ objs[i].kind = Batched
    /\ Returns(IF duplicate_inputs THEN "GetSize(true)" ELSE "GetSize(false)",
               i, GemmStridedBatchedParams_GetSize(objs[i], duplicate_inputs))

\* ------------------------------------------------------- initial states

\* A caller-constructed GemmParams: the constructor clears the flag, the
\* caller sets the rest.  sh gives the shape, a, b, c the buffers.
GemmParams_New(sh, a, b, c) ==
    [kind |-> Dense, transa |-> sh.transa, transb |-> sh.transb,
     m |-> sh.m, n |-> sh.n, k |-> sh.k, alpha |-> sh.alpha,
     a |-> a, lda |-> sh.lda, b |-> b, ldb |-> sh.ldb, beta |-> sh.beta,
     c |-> c, ldc |-> sh.ldc, duplicate_inputs_ |-> FALSE]

GemmStridedBatchedParams_New(sh, a, b, c) ==
    [kind |-> Batched, transa |-> sh.transa, transb |-> sh.transb,
     m |-> sh.m, n |-> sh.n, k |-> sh.k, alpha |-> sh.alpha,
     a |-> a, lda |-> sh.lda, stride_a |-> sh.stride_a,
     b |-> b, ldb |-> sh.ldb, stride_b |-> sh.stride_b, beta |-> sh.beta,
     c |-> c, ldc |-> sh.ldc, stride_c |-> sh.stride_c, batch |-> sh.batch,
     duplicate_inputs_ |-> FALSE]

New(sh, a, b, c) == IF sh.kind = Dense THEN GemmParams_New(sh, a, b, c)
                    ELSE GemmStridedBatchedParams_New(sh, a, b, c)

Max(x, y) == IF x > y THEN x ELSE y

\* Leading dimensions a column-major GEMM of this shape needs at least.
MinLda(transa, m, k) == IF IsNoTrans(transa) THEN m ELSE k

MinLdb(transb, n, k) == IF IsNoTrans(transb) THEN k ELSE n

\* Elements of the caller's output buffer: every batch matrix, and all
\* the elements DeepCopy copies and NumericalCheck views.
CallerElemsC(sh) ==
    IF sh.kind = Dense THEN sh.ldc * sh.n
    ELSE Max(sh.batch * sh.stride_c, sh.batch * sh.ldc * sh.n)

Zeros(len) == [e \in 1..len |-> 0]

\* The log entry of a caller-constructed descriptor: as constructed, its
\* output buffer holding cdata.
Root(d, cdata) == [parent |-> 0, duplicate_inputs |-> FALSE, deletes |-> 0,
                   made |-> d, cdata |-> cdata]

\* One caller-constructed descriptor of shape sh over its own buffers,
\* the output buffer holding cdata.
World1(sh, cdata) ==
    LET d == New(sh, 1, 2, 3)
    IN /\ objs = <<d>>
       /\ mem = <<CallerBuffer(Zeros(GetSizeA(d) \div SizeofT)),
                  CallerBuffer(Zeros(GetSizeB(d) \div SizeofT)),
                  CallerBuffer(cdata)>>
       /\ stream = <<>>
       /\ log = <<Root(d, cdata)>>
       /\ ret = [op |-> "none"]

\* Two caller-constructed descriptors, each over its own buffers.
World2(sh1, cdata1, sh2, cdata2) ==
    LET d1 == New(sh1, 1, 2, 3)
        d2 == New(sh2, 4, 5, 6)
    IN /\ objs = <<d1, d2>>
       /\ mem = <<CallerBuffer(Zeros(GetSizeA(d1) \div SizeofT)),
                  CallerBuffer(Zeros(GetSizeB(d1) \div SizeofT)),
                  CallerBuffer(cdata1),
                  CallerBuffer(Zeros(GetSizeA(d2) \div SizeofT)),
                  CallerBuffer(Zeros(GetSizeB(d2) \div SizeofT)),
                  CallerBuffer(cdata2)>>
       /\ stream = <<>>
       /\ log = <<Root(d1, cdata1), Root(d2, cdata2)>>
       /\ ret = [op |-> "none"]

\* Shapes of the trial worlds: a 1 x n output, k = 1; one or two batch
\* matrices packed, or one with padding after it.
TrialShapes ==
    {[kind |-> Dense, transa |-> "N", transb |-> "T", m |-> 1, n |-> n,
      k |-> 1, alpha |-> 1, lda |-> 1, ldb |-> n, beta |-> 0, ldc |-> 1]
       : n \in {1, 2}}
    \cup
    {[kind |-> Batched, transa |-> "N", transb |-> "T", m |-> 1, n |-> 1,
      k |-> 1, alpha |-> 1, lda |-> 1, stride_a |-> 1, ldb |-> 1,
      stride_b |-> 1, beta |-> 0, ldc |-> 1, stride_c |-> 1 + pad,
      batch |-> batch]
       : pad \in {0, 1}, batch \in {1, 2}}

\* Output contents of the trial worlds: element e holds seed * e.
TrialSeeds == {0, 7000}

\* The trial worlds: one descriptor of a dense or a packed shape over
\* either output, or two descriptors of the shape of one padded batch
\* matrix, over outputs that differ in the matrix element and both hold
\* 1.4e-4 in the padding.
InitTrial ==
    \/ \E sh \in {t \in TrialShapes : t.kind = Dense \/ t.stride_c = 1},
          seed \in TrialSeeds :
          World1(sh, [e \in 1..CallerElemsC(sh) |-> seed * e])
    \/ \E sh \in {t \in TrialShapes
                     : t.kind = Batched /\ t.stride_c = 2 /\ t.batch = 1} :
          World2(sh, [e \in 1..CallerElemsC(sh) |-> 7000 * e],
                 sh, [e \in 1..CallerElemsC(sh) |-> 14000 * (e - 1)])

\* The ownership worlds: the largest dense and batched trial shapes.
Init ==
    \E sh \in {t \in TrialShapes
                  : t.n = 2 \/ (t.kind = Batched /\ t.batch = 2
                                                /\ t.stride_c = 2)},
       seed \in TrialSeeds :
       World1(sh, [e \in 1..CallerElemsC(sh) |-> seed * e])

\* Output values of the check worlds: NaN, 0, 1e-5, 0.1, 0.18, 0.2.
CheckVals == {NaN, 0, 1000, 10000000, 18000000, 20000000}

\* Shapes of the check worlds: 1 x n outputs of one or two elements, one
\* batch matrix.
CheckShapes ==
    {[kind |-> Dense, transa |-> "N", transb |-> "T", m |-> 1, n |-> n,
      k |-> 1, alpha |-> 1, lda |-> 1, ldb |-> n, beta |-> 0, ldc |-> 1]
       : n \in {1, 2}}
    \cup
    {[kind |-> Batched, transa |-> "N", transb |-> "T", m |-> 1, n |-> n,
      k |-> 1, alpha |-> 1, lda |-> 1, stride_a |-> 1, ldb |-> n,
      stride_b |-> n, beta |-> 0, ldc |-> 1, stride_c |-> n,
      batch |-> 1] : n \in {1, 2}}

\* A reference result and a candidate result of one shape.
InitCheck ==
    \E sh \in CheckShapes :
       \E c1 \in [1..CallerElemsC(sh) -> CheckVals],
          c2 \in [1..CallerElemsC(sh) -> CheckVals] :
          World2(sh, c1, sh, c2)

\* The shape-defining fields of the signature worlds.  (1, 12) and (11, 2)
\* print the same digits.
SigDims ==
    {[transa |-> ta, transb |-> tb, m |-> m, n |-> n, k |-> 3]
       : ta \in {"N", "T"}, tb \in {"N", "T"}, m \in {1, 11}, n \in {2, 12}}
    \cup {[transa |-> "N", transb |-> "N", m |-> 1, n |-> 2, k |-> 4]}

\* The shape whose signature is NN_64_32_16 (lda = 64, ldb = 16, ldc = 64).
ExampleDims == [transa |-> "N", transb |-> "N", m |-> 64, n |-> 32, k |-> 16]

SigBatches == {1, 4}

\* A dense descriptor's fields for dims s; v varies all that is not shape:
\* the scalars and the leading dimensions (v = 0 gives the smallest valid).
DenseShape(s, v) ==
    [kind |-> Dense, transa |-> s.transa, transb |-> s.transb,
     m |-> s.m, n |-> s.n, k |-> s.k, alpha |-> 1 + v, beta |-> v,
     lda |-> MinLda(s.transa, s.m, s.k) + v,
     ldb |-> MinLdb(s.transb, s.n, s.k) + v,
     ldc |-> s.m + v]

\* The batched descriptor of the same fields, its batch matrices packed.
BatchedShape(s, batch, v) ==
    LET lda == MinLda(s.transa, s.m, s.k) + v
        ldb == MinLdb(s.transb, s.n, s.k) + v
        ldc == s.m + v
    IN [kind |-> Batched, transa |-> s.transa, transb |-> s.transb,
        m |-> s.m, n |-> s.n, k |-> s.k, alpha |-> 1 + v, beta |-> v,
        lda |-> lda,
        stride_a |-> lda * (IF IsNoTrans(s.transa) THEN s.k ELSE s.m),
        ldb |-> ldb,
        stride_b |-> ldb * (IF IsNoTrans(s.transb) THEN s.n ELSE s.k),
        ldc |-> ldc, stride_c |-> ldc * s.n, batch |-> batch]

\* Two descriptors that differ in all that is not shape: two dense ones of
\* any two dims, two batched ones of the same dims and any two batch
\* counts, or a dense and a batched one of the same dims; and the dense
\* and the four-batch descriptor of the example shape.
InitSig ==
    \/ World2(DenseShape(ExampleDims, 0),
              Zeros(CallerElemsC(DenseShape(ExampleDims, 0))),
              BatchedShape(ExampleDims, 4, 0),
              Zeros(CallerElemsC(BatchedShape(ExampleDims, 4, 0))))
    \/ \E s1 \in SigDims, s2 \in SigDims :
          World2(DenseShape(s1, 0), Zeros(CallerElemsC(DenseShape(s1, 0))),
                 DenseShape(s2, 1), Zeros(CallerElemsC(DenseShape(s2, 1))))
    \/ \E s \in SigDims, b1 \in SigBatches, b2 \in SigBatches :
          World2(BatchedShape(s, b1, 0),
                 Zeros(CallerElemsC(BatchedShape(s, b1, 0))),
                 BatchedShape(s, b2, 1),
                 Zeros(CallerElemsC(BatchedShape(s, b2, 1))))
    \/ \E s \in SigDims, b \in SigBatches :
          World2(DenseShape(s, 0), Zeros(CallerElemsC(DenseShape(s, 0))),
                 BatchedShape(s, b, 1),
                 Zeros(CallerElemsC(BatchedShape(s, b, 1))))

\* The size worlds: every transpose character, small dims with m, n, k
\* apart, leading dimensions exact or padded, one to three batches.
SizeTrans == {"n", "N", "t", "T", "c"}

SizeDims ==
    {[transa |-> ta, transb |-> tb, m |-> m, n |-> n, k |-> k]
       : ta \in SizeTrans, tb \in SizeTrans,
         m \in {1, 2}, n \in {3, 5}, k \in {4}}

SizeBatches == {1, 2, 3}

InitSize ==
    \/ \E s \in SizeDims, v \in {0, 1} :
          World1(DenseShape(s, v), Zeros(CallerElemsC(DenseShape(s, v))))
    \/ \E s \in SizeDims, v \in {0, 1}, b \in SizeBatches :
          World1(BatchedShape(s, b, v),
                 Zeros(CallerElemsC(BatchedShape(s, b, v))))

\* ------------------------------------------------------- specifications

\* Trial isolation: copies are made and torn down while the device works.
Next ==
    \/ \E i \in Objs, dup \in BOOLEAN : GemmParams_DeepCopy(i, dup)
    \/ \E i \in Objs, dup \in BOOLEAN : GemmStridedBatchedParams_DeepCopy(i, dup)
    \/ StreamExec
    \/ \E i \in Objs : GemmParams_Delete(i)
    \/ \E i \in Objs : GemmStridedBatchedParams_Delete(i)

Spec == Init /\ [][Next]_vars

\* Trial isolation as the contract has it: DeepCopy on caller-constructed
\* descriptors only, Delete() on copies not yet torn down.
NextContract ==
    \/ \E i \in {x \in Objs : log[x].parent = 0}, dup \in BOOLEAN :
          GemmParams_DeepCopy(i, dup)
    \/ \E i \in {x \in Objs : log[x].parent = 0}, dup \in BOOLEAN :
          GemmStridedBatchedParams_DeepCopy(i, dup)
    \/ StreamExec
    \/ \E i \in {x \in Objs : log[x].parent # 0 /\ log[x].deletes = 0} :
          GemmParams_Delete(i)
    \/ \E i \in {x \in Objs : log[x].parent # 0 /\ log[x].deletes = 0} :
          GemmStridedBatchedParams_Delete(i)

SpecContract == Init /\ [][NextContract]_vars

\* A trial's numerics: copies are made and compared while the device works.
NextTrial ==
    \/ \E i \in Objs, dup \in BOOLEAN : GemmParams_DeepCopy(i, dup)
    \/ \E i \in Objs, dup \in BOOLEAN : GemmStridedBatchedParams_DeepCopy(i, dup)
    \/ StreamExec
    \/ \E i \in Objs, j \in Objs : GemmParams_NumericalCheck(i, j)
    \/ \E i \in Objs, j \in Objs : GemmStridedBatchedParams_NumericalCheck(i, j)

SpecTrial == InitTrial /\ [][NextTrial]_vars

\* The numerical check on results the caller holds.
NextCheck ==
    \/ \E i \in Objs, j \in Objs : GemmParams_NumericalCheck(i, j)
    \/ \E i \in Objs, j \in Objs : GemmStridedBatchedParams_NumericalCheck(i, j)

SpecCheck == InitCheck /\ [][NextCheck]_vars

\* Signatures of descriptors and of their copies.
NextSig ==
    \/ \E i \in Objs : GemmParams_SignatureCall(i)
    \/ \E i \in Objs : GemmStridedBatchedParams_SignatureCall(i)
    \/ \E i \in Objs, dup \in BOOLEAN : GemmParams_DeepCopy(i, dup)
    \/ \E i \in Objs, dup \in BOOLEAN : GemmStridedBatchedParams_DeepCopy(i, dup)
    \/ StreamExec

SpecSig == InitSig /\ [][NextSig]_vars

\* The size queries.
NextSize ==
    \/ \E i \in Objs : GemmParams_GetSizeACall(i)
    \/ \E i \in Objs : GemmParams_GetSizeBCall(i)
    \/ \E i \in Objs : GemmParams_GetSizeCCall(i)
    \/ \E i \in Objs, dup \in BOOLEAN : GemmParams_GetSizeCall(i, dup)
    \/ \E i \in Objs : GemmStridedBatchedParams_GetSizeACall(i)
    \/ \E i \in Objs : GemmStridedBatchedParams_GetSizeBCall(i)
    \/ \E i \in Objs : GemmStridedBatchedParams_GetSizeCCall(i)
    \/ \E i \in Objs, dup \in BOOLEAN : GemmStridedBatchedParams_GetSizeCall(i, dup)

SpecSize == InitSize /\ [][NextSize]_vars

\* ---------------------------------------------------------------- claims

IsCopy(i) == log[i].parent # 0

IsRoot(i) == log[i].parent = 0

\* C1: a Delete() called on a descriptor that DeepCopy did not produce, or
\* called a second time on a deep copy, is rejected: it does not return
\* normally and hands no buffer to raw_delete.
C1_DeleteRejected ==
    (ret.op = "Delete" /\ (IsRoot(ret.this) \/ log[ret.this].deletes >= 2))
        => (~ret.returned /\ ret.freed = {})

\* C2: whatever its receiver, the descriptor DeepCopy(duplicate_inputs)
\* returns has duplicate_inputs_ equal to the flag requested and, until it
\* is torn down, a c buffer no other descriptor in use points at; and no
\* buffer is handed to raw_delete by the Delete() of two different
\* descriptors.
C2_CopyOwnsWhatItAllocated ==
    /\ \A i \in Objs :
          IsCopy(i) =>
             /\ objs[i].duplicate_inputs_ = log[i].duplicate_inputs
             /\ log[i].deletes = 0 =>
                   \A j \in Objs \ {i} :
                      log[j].deletes = 0 => objs[j].c # objs[i].c
    /\ \A x \in DOMAIN mem : Cardinality(mem[x].freedBy) <= 1

\* The calls so far keep to the contract: DeepCopy only on descriptors the
\* caller constructed, Delete() once at most on each copy, never on a
\* caller-constructed descriptor.
Disciplined ==
    \A i \in Objs :
       IF IsRoot(i) THEN log[i].deletes = 0
       ELSE IsRoot(log[i].parent) /\ log[i].deletes <= 1

\* C3: while the calls keep to that contract, no buffer of a
\* caller-constructed descriptor has been freed or written, and the
\* descriptor's fields are as the caller set them, the flag false.
C3_CallerBuffersUntouched ==
    Disciplined =>
       \A r \in Objs :
          IsRoot(r) =>
             /\ objs[r] = log[r].made
             /\ ~objs[r].duplicate_inputs_
             /\ mem[objs[r].c].data = log[r].cdata
             /\ \A x \in {objs[r].a, objs[r].b, objs[r].c} :
                   /\ mem[x].freedBy = {}
                   /\ mem[x].writes = 0

\* Two copies of a caller-constructed descriptor, one sharing its inputs
\* and one with inputs of its own, both copied into and torn down once.
C3_Witness ==
    /\ Disciplined
    /\ stream = <<>>
    /\ \E i \in Objs, j \in Objs :
          /\ IsCopy(i) /\ IsCopy(j)
          /\ ~log[i].duplicate_inputs /\ log[j].duplicate_inputs
          /\ log[i].deletes = 1 /\ log[j].deletes = 1
          /\ mem[objs[i].c].writes = 1

\* C4: a NumericalCheck(original, copy) called right after the
\* DeepCopy(false) that made the copy returns OK with atol = rtol = 1e-5.
C4_CopyChecksEqual ==
    (/\ ret.op = "NumericalCheck"
     /\ ret.prev.op = "DeepCopy"
     /\ ~ret.prev.duplicate_inputs
     /\ ret.this = ret.prev.this
     /\ ret.other = ret.prev.result)
        => (ret.status = OK /\ ret.atol = atols[5] /\ ret.rtol = rtols[5])

\* C10: the elements NumericalCheck views in the c buffer of a DeepCopy
\* result all lie within the bytes DeepCopy allocated for it.
C10_CheckWithinCopy ==
    ret.op = "NumericalCheck" =>
       /\ IsCopy(ret.this) =>
             Len(ret.ref_float) * SizeofT <= mem[objs[ret.this].c].bytes
       /\ IsCopy(ret.other) =>
             Len(ret.oth_float) * SizeofT <= mem[objs[ret.other].c].bytes

\* Some pair of the ladder passes on the two views the check compared.
SomePairPasses ==
    \E ia \in DOMAIN atols, ir \in DOMAIN rtols :
       allclose(ret.ref_float, ret.oth_float, rtols[ir], atols[ia])

\* C5: the pair an OK check reports passes, and no pair of the ladder that
\* is at most as large in both components and smaller in one passes.
C5_ReportsTightestPair ==
    (ret.op = "NumericalCheck" /\ ret.status = OK) =>
       /\ allclose(ret.ref_float, ret.oth_float, ret.rtol, ret.atol)
       /\ \A ia \in DOMAIN atols, ir \in DOMAIN rtols :
             (/\ atols[ia] <= ret.atol
              /\ rtols[ir] <= ret.rtol
              /\ (atols[ia] < ret.atol \/ rtols[ir] < ret.rtol))
                => ~allclose(ret.ref_float, ret.oth_float, rtols[ir], atols[ia])

\* An OK check whose reported pair is not the tightest of the ladder:
\* pairs passed, and the later, tighter ones failed.
C5_Witness ==
    /\ ret.op = "NumericalCheck"
    /\ ret.status = OK
    /\ ret.atol = atols[2]
    /\ ret.rtol = rtols[1]

\* The two views differ by one absolute offset d in every element.
ConstantOffset(d) ==
    \A e \in DOMAIN ret.ref_float :
       /\ ret.ref_float[e] # NaN
       /\ ret.oth_float[e] # NaN
       /\ Abs(ret.ref_float[e] - ret.oth_float[e]) = d

Offsets ==
    {Abs(x - y) : x \in CheckVals \ {NaN}, y \in CheckVals \ {NaN}}

HasNaN(view) == \E e \in DOMAIN view : view[e] = NaN

\* What C6 says of every check but for its identical-buffers case.
C6_Common ==
    /\ (ret.status = FAIL) <=> ~SomePairPasses
    /\ ret.status \in {OK, FAIL}
    /\ \A d \in Offsets :
          (ConstantOffset(d) /\ ret.status = FAIL) => d > atols[1]
    /\ ret.evals = Len(atols) * Len(rtols)
    /\ \A x \in Objs :
          objs[x] = log[x].made /\ mem[objs[x].c].data = log[x].cdata
    /\ \A x \in DOMAIN mem : mem[x].writes = 0 /\ mem[x].freedBy = {}

\* C6 as stated: FAIL exactly when no pair of the ladder passes; two
\* identical buffers give OK with (1e-5, 1e-5); a constant offset d gives
\* FAIL only if d > 0.1; all 25 pairs are swept and nothing is changed.
C6_AsStated ==
    ret.op = "NumericalCheck" =>
       /\ C6_Common
       /\ ret.ref_float = ret.oth_float
             => (ret.status = OK /\ ret.atol = atols[5] /\ ret.rtol = rtols[5])

\* C6 amended: the same, the identical buffers being free of NaN (with a
\* NaN in them no pair passes and the check returns FAIL).
C6_FailIffNoPairPasses ==
    ret.op = "NumericalCheck" =>
       /\ C6_Common
       /\ (ret.ref_float = ret.oth_float /\ ~HasNaN(ret.ref_float))
             => (ret.status = OK /\ ret.atol = atols[5] /\ ret.rtol = rtols[5])
       /\ (ret.ref_float = ret.oth_float /\ HasNaN(ret.ref_float))
             => ret.status = FAIL

\* A check of two NaN-free buffers that differ by 0.2 in every element
\* swept the ladder and returned FAIL.
C6_Witness ==
    /\ ret.op = "NumericalCheck"
    /\ ret.this # ret.other
    /\ ~HasNaN(ret.ref_float) /\ ~HasNaN(ret.oth_float)
    /\ ret.status = FAIL
    /\ ConstantOffset(20000000)

IsDense(i) == objs[i].kind = Dense

IsBatched(i) == objs[i].kind = Batched

\* Two descriptors agree on transa, transb, m, n and k.
SameDims(d, e) ==
    /\ d.transa = e.transa
    /\ d.transb = e.transb
    /\ d.m = e.m
    /\ d.n = e.n
    /\ d.k = e.k

HasExampleDims(d) == SameDims(d, ExampleDims)

\* C7: two dense descriptors, caller-constructed or copies, have the same
\* signature exactly when they agree on transa, transb, m, n and k,
\* whatever their scalars, buffers and leading dimensions; a deep copy has
\* the signature of its receiver; and the example shape gives NN_64_32_16.
C7_DenseSignature ==
    /\ \A i \in Objs, j \in Objs :
          (IsDense(i) /\ IsDense(j)) =>
             ((GemmParams_Signature(objs[i]) = GemmParams_Signature(objs[j]))
                <=> SameDims(objs[i], objs[j]))
    /\ \A i \in Objs :
          (IsDense(i) /\ IsCopy(i)) =>
             GemmParams_Signature(objs[i])
                = GemmParams_Signature(objs[log[i].parent])
    /\ \A i \in Objs :
          (IsDense(i) /\ HasExampleDims(objs[i])) =>
             GemmParams_Signature(objs[i]) = "NN_64_32_16"
    /\ (ret.op = "Signature" /\ IsDense(ret.this)) =>
          ret.result = GemmParams_Signature(objs[ret.this])

\* Signature() was called on a deep copy of the example descriptor, made
\* with buffers of its own, and returned NN_64_32_16.
C7_Witness ==
    /\ ret.op = "Signature"
    /\ IsDense(ret.this)
    /\ IsCopy(ret.this)
    /\ objs[ret.this].duplicate_inputs_
    /\ ret.result = "NN_64_32_16"

\* C8: a batched signature differs from the dense signature of the same
\* transa, transb, m, n, k when batch # 1; two batched descriptors of the
\* same transa, transb, m, n, k have the same signature exactly when their
\* batch counts are equal; and the batched signature is the dense one
\* followed by _B_ and the batch count, NN_64_32_16_B_4 for the example.
C8_BatchedSignature ==
    /\ \A i \in Objs, j \in Objs :
          (/\ IsBatched(i) /\ IsDense(j)
           /\ SameDims(objs[i], objs[j])
           /\ objs[i].batch # 1) =>
             GemmStridedBatchedParams_Signature(objs[i])
                # GemmParams_Signature(objs[j])
    /\ \A i \in Objs, j \in Objs :
          (IsBatched(i) /\ IsBatched(j) /\ SameDims(objs[i], objs[j])) =>
             ((GemmStridedBatchedParams_Signature(objs[i])
                  = GemmStridedBatchedParams_Signature(objs[j]))
                <=> objs[i].batch = objs[j].batch)
    /\ \A i \in Objs :
          IsBatched(i) =>
             GemmStridedBatchedParams_Signature(objs[i])
                = GemmParams_Signature(objs[i]) \o "_B_"
                     \o IntStr(objs[i].batch)
    /\ \A i \in Objs :
          (IsBatched(i) /\ HasExampleDims(objs[i]) /\ objs[i].batch = 4) =>
             GemmStridedBatchedParams_Signature(objs[i]) = "NN_64_32_16_B_4"
    /\ (ret.op = "Signature" /\ IsBatched(ret.this)) =>
          ret.result = GemmStridedBatchedParams_Signature(objs[ret.this])

\* Signature() was called on the example's batched descriptor and returned
\* NN_64_32_16_B_4, the dense descriptor of the same shape beside it.
C8_Witness ==
    /\ ret.op = "Signature"
    /\ IsBatched(ret.this)
    /\ ret.result = "NN_64_32_16_B_4"
    /\ \E j \in Objs : IsDense(j) /\ SameDims(objs[j], objs[ret.this])

\* The byte extents as the claim gives them, for one matrix.
ExtentA(d) ==
    SizeofT * d.lda * (IF d.transa \in {"n", "N"} THEN d.k ELSE d.m)

ExtentB(d) ==
    SizeofT * d.ldb * (IF d.transb \in {"n", "N"} THEN d.n ELSE d.k)

ExtentC(d) == SizeofT * d.ldc * d.n

Batches(d) == IF d.kind = Batched THEN d.batch ELSE 1

\* C9: GetSizeA, GetSizeB and GetSizeC return those extents, batch times
\* over for a batched descriptor; GetSize(false) returns the extent of C
\* and GetSize(true) the sum of the three.
C9_ByteExtents ==
    LET d == objs[ret.this]
    IN /\ ret.op = "GetSizeA" => ret.result = Batches(d) * ExtentA(d)
       /\ ret.op = "GetSizeB" => ret.result = Batches(d) * ExtentB(d)
       /\ ret.op = "GetSizeC" => ret.result = Batches(d) * ExtentC(d)
       /\ ret.op = "GetSize(false)" => ret.result = Batches(d) * ExtentC(d)
       /\ ret.op = "GetSize(true)" =>
             ret.result = Batches(d) * (ExtentA(d) + ExtentB(d) + ExtentC(d))
       /\ (ret.op = "GetSizeA" /\ d.kind = Batched) =>
             ret.result = d.batch * GemmParams_GetSizeA(d)
       /\ (ret.op = "GetSizeB" /\ d.kind = Batched) =>
             ret.result = d.batch * GemmParams_GetSizeB(d)
       /\ (ret.op = "GetSizeC" /\ d.kind = Batched) =>
             ret.result = d.batch * GemmParams_GetSizeC(d)

\* GetSizeA() was called on a three-batch descriptor whose transa is the
\* upper-case no-transpose marker and whose k differs from its m.
C9_Witness ==
    /\ ret.op = "GetSizeA"
    /\ objs[ret.this].kind = Batched
    /\ objs[ret.this].batch = 3
    /\ objs[ret.this].transa = "N"
    /\ objs[ret.this].k # objs[ret.this].m
    /\ ret.result = 3 * SizeofT * objs[ret.this].lda * objs[ret.this].k

====
